---- MODULE Spec2Model ----
(***************************************************************************)
(* Model of preview.py: the Preview plugin (supervisor) that starts and    *)
(* stops a PreviewGenerator worker process, the worker's consume loop with *)
(* its per-eye ImageStream accumulators, the PreviewFrame file-name codec   *)
(* and PreviewFrame.load_all, which reads a folder of saved frames back.   *)
(*                                                                         *)
(* None is modelled as 0; a worker process, its two pipes and its          *)
(* generator are identified by the number of the run that created them.    *)
(* Text is a sequence of one-character strings.                            *)
(***************************************************************************)
EXTENDS Integers, Sequences, FiniteSets

\* ------------------------------------------------------------- bounds

\* how many worker processes are ever spawned
MaxRuns == 2
\* how many payloads the message source delivers to the worker under SpecWorker
MaxPayloads == 3
\* how many payloads the message source delivers in total under Spec
MaxRunPayloads == 1
\* the largest sampling interval (Preview.frames_per_frame) tried
MaxInterval == 3
\* how many "exit" messages fit the model's command pipe
MaxPending == 2
\* the largest frame number of a saved frame
MaxFrameNum == 5
\* how many files a folder of any files holds at most
MaxFound == 3

Runs == 1..MaxRuns

\* ------------------------------------------------------------- inputs

\* ids of the eyes that publish frames (last segment of the topic)
EyeIds == {0, 7}

\* payload["format"] values: the three supported ones and an unsupported one
PixelFormats == {"gray", "bgr", "jpeg", "yuv422"}

\* payload["width"], payload["height"]
Widths == {2}
Heights == {1, 2}

\* lengths of payload["__raw_data__"][-1]
Lengths == {w * h * c : w \in Widths, h \in Heights, c \in {1, 3}}

Payloads == [format : PixelFormats, width : Widths, height : Heights, len : Lengths]

\* topics of the subscription "frame.eye": frame.eye.<id>
Topics == {<<"frame", "eye", id>> : id \in EyeIds}

\* pupil_2d["confidence"] in ten-thousandths, as returned by the detector
Confidences == {0, 9871}

\* PreviewFrame.Format
Formats == {"JPEG", "PNG", "BMP"}

\* the state of the folder a recording.started notification meets:
\*   "dir"     self.folder is absolute and is a directory
\*   "missing" rec_path / folder does not exist yet
\*   "present" rec_path / folder exists already
FolderStates == {"dir", "missing", "present"}

VARIABLES
    frames_per_frame,  \* Preview.frames_per_frame
    frame_format,      \* Preview.__frame_format
    worker,            \* Preview.__worker: 0 or the run of the Process
    command_sender,    \* Preview.__command_sender: 0 or the run of the pipe
    status_receiver,   \* Preview.__status_receiver: 0 or the run of the pipe
    generator,         \* Preview.__generator: 0 or the run of the PreviewGenerator
    sup_pc,            \* "ready", or "join" inside self.__worker.join(3)
    last_call,         \* the last call the host made to the plugin
    raised,            \* what that call raised to the host
    spawned,           \* number of Process.start() calls so far
    proc,              \* proc[r]: where worker process r is in generate()
    streams,           \* streams[r]: the dict id -> ImageStream of process r
    command_pipe,      \* command_pipe[r]: "exit" messages sent on pipe r
    status_pipe,       \* status_pipe[r]: messages sent and not yet received
    broken,            \* broken[r]: the status pipe of run r is broken
    files,             \* files[r]: PreviewFrames saved by process r
    traffic,           \* what the message source publishes: "any" or "plain"
    pending,           \* payloads the message source will still deliver
    received,          \* received[r][id]: payloads process r routed to eye id
    malformed,         \* malformed[r]: process r routed a payload that is not well formed
    disabled,          \* runs whose status polling a broken pipe switched off
    lost,              \* runs whose exception was sent and can no longer be received
    frame,             \* the PreviewFrame whose file name is written, in a set
    name,              \* the name of its file, << >> before it is written
    decoded,           \* what load_all makes of that name, in a set
    entries,           \* the names of the files of a folder, in the order of their creation
    loaded             \* the outcome of load_all on that folder: call is "none" before it

vars == <<frames_per_frame, frame_format, worker, command_sender, status_receiver,
          generator, sup_pc, last_call, raised, spawned, proc, streams, command_pipe,
          status_pipe, broken, files, traffic, pending, received, malformed,
          disabled, lost, frame, name, decoded, entries, loaded>>

codec == <<frame, name, decoded, entries, loaded>>
plugin == <<worker, command_sender, status_receiver, generator, sup_pc, spawned>>
settings == <<frames_per_frame, frame_format, traffic>>
host == <<last_call, raised>>
process == <<proc, streams, files, pending, received, malformed>>

\* ------------------------------------------------------------- worker

\* what frame_queue.recv() can return: every topic and payload, or (plain
\* traffic) frames of one eye and one size, some of them in an unsupported format or
\* with a raw buffer of another length
Published ==
    IF traffic = "any"
    THEN Topics \X Payloads
    ELSE {<<<<"frame", "eye", 0>>, [format |-> f, width |-> 2, height |-> 1, len |-> n]>> :
             f \in {"gray", "yuv422"}, n \in {2, 4}}

\* what Detector_2D.detect can return as confidence
Detected == IF traffic = "any" THEN Confidences ELSE {9871}

\* the exception classes ImageStream.add raises
Exceptions == {"NotImplementedError", "RuntimeWarning"}

\* Sampled with the sampled position shifted by one
SampledShifted(counter, interval) == counter % interval = 1

\* self.__counter % self.frame_per_frames == 0
Sampled(counter, interval) == counter % interval = 0

\* shape = [h, w] (+ [3] unless gray); np.prod(shape)
ExpectedLen(frame_size, format) ==
    frame_size[2] * frame_size[1] * (IF format # "gray" THEN 3 ELSE 1)

\* int(str(topic).split(".")[-1])
TopicId(topic) == topic[Len(topic)]

\* AddResult without the test of payload["format"]
AddResultAnyFormat(counter, interval, frame_size, payload) ==
    IF Sampled(counter, interval)
    THEN IF payload.len = ExpectedLen(frame_size, payload.format)
            \/ payload.format = "jpeg"
         THEN "True"
         ELSE "RuntimeWarning"
    ELSE "False"

\* AddResult with the length of a jpeg buffer tested like the others
AddResultJpegSized(counter, interval, frame_size, payload) ==
    IF Sampled(counter, interval)
    THEN IF payload.format \notin {"gray", "bgr", "jpeg"}
         THEN "NotImplementedError"
         ELSE IF payload.len = ExpectedLen(frame_size, payload.format)
              THEN "True"
              ELSE "RuntimeWarning"
    ELSE "False"

\* ImageStream.add: the result of the call for a stream whose counter
\* has already been incremented to `counter`
AddResult(counter, interval, frame_size, payload) ==
    IF Sampled(counter, interval)
    THEN IF payload.format \notin {"gray", "bgr", "jpeg"}
         THEN "NotImplementedError"
         ELSE IF payload.len = ExpectedLen(frame_size, payload.format)
                 \/ payload.format = "jpeg"
              THEN "True"
              ELSE "RuntimeWarning"
    ELSE "False"

\* PreviewFrame(self.eye_id, self.__counter, pupil_2d["confidence"], self.frame_format)
PreviewFrame(eye_id, frame_num, confidence, format) ==
    [eye_id |-> eye_id, frame_num |-> frame_num,
     confidence |-> confidence, format |-> format]

\* a payload the stream of its eye can process: a supported format and a
\* raw buffer of the stream's frame size
WellFormed(frame_size, payload) ==
    /\ payload.format \in {"gray", "bgr", "jpeg"}
    /\ <<payload.width, payload.height>> = frame_size
    /\ payload.format # "jpeg" => payload.len = ExpectedLen(frame_size, payload.format)

\* Routed with a new stream for every payload
RoutedFresh(r, id, payload) ==
    LET stream == [counter |-> 1, frame_size |-> <<payload.width, payload.height>>]
    IN  [x \in DOMAIN streams[r] \cup {id} |-> IF x = id THEN stream ELSE streams[r][x]]

\* streams[id] after the lazy creation of lines 303-311 and the increment of line 181
Routed(r, id, payload) ==
    LET known == id \in DOMAIN streams[r]
        stream == [counter |-> (IF known THEN streams[r][id].counter ELSE 0) + 1,
                   frame_size |-> IF known THEN streams[r][id].frame_size
                                  ELSE <<payload.width, payload.height>>]
    IN  [x \in DOMAIN streams[r] \cup {id} |-> IF x = id THEN stream ELSE streams[r][x]]

\* params._status_pipe.send(message): the message reaches the pipe while the
\* plugin holds its receiving end, and is lost otherwise
Send(r, message) ==
    IF status_receiver = r
    THEN /\ status_pipe' = [status_pipe EXCEPT ![r] = Append(@, message)]
         /\ lost' = lost
    ELSE /\ status_pipe' = status_pipe
         /\ lost' = IF message \in Exceptions THEN lost \cup {r} ELSE lost

\* generate(), the start: the first status message
Connect(r) ==
    /\ proc[r] = "start"
    /\ Send(r, "Connecting")
    /\ proc' = [proc EXCEPT ![r] = "connect"]
    /\ UNCHANGED <<codec, settings, plugin, host, streams, command_pipe, broken, files,
                   pending, received, malformed, disabled>>

\* generate(): Msg_Receiver is created, the second status message
Subscribe(r) ==
    /\ proc[r] = "connect"
    /\ Send(r, "Starting")
    /\ proc' = [proc EXCEPT ![r] = "loop"]
    /\ UNCHANGED <<codec, settings, plugin, host, streams, command_pipe, broken, files,
                   pending, received, malformed, disabled>>

\* PollCommand that does not see the "exit" in the pipe
PollCommandDeaf(r) ==
    /\ proc[r] = "loop"
    /\ proc' = [proc EXCEPT ![r] = "body"]
    /\ UNCHANGED <<codec, settings, plugin, host, streams, command_pipe, status_pipe,
                   broken, files, pending, received, malformed, disabled, lost>>

\* while not params._command_pipe.poll(): the loop's test, once per iteration
PollCommand(r) ==
    /\ proc[r] = "loop"
    /\ proc' = [proc EXCEPT ![r] = IF command_pipe[r] > 0 THEN "return" ELSE "body"]
    /\ UNCHANGED <<codec, settings, plugin, host, streams, command_pipe, status_pipe,
                   broken, files, pending, received, malformed, disabled, lost>>

\* if frame_queue.new_data: false, the iteration ends
NoData(r) ==
    /\ proc[r] = "body"
    /\ proc' = [proc EXCEPT ![r] = "loop"]
    /\ UNCHANGED <<codec, settings, plugin, host, streams, command_pipe, status_pipe,
                   broken, files, pending, received, malformed, disabled, lost>>

\* Route with a loop that goes on after the exception is sent
RouteResuming(r, topic, payload) ==
    LET id == TopicId(topic)
        after == Routed(r, id, payload)
        result == AddResult(after[id].counter, frames_per_frame,
                            after[id].frame_size, payload)
    IN  /\ proc[r] = "body"
        /\ pending > 0
        /\ pending' = pending - 1
        /\ streams' = [streams EXCEPT ![r] = after]
        /\ received' = [received EXCEPT ![r][id] = @ + 1]
        /\ malformed' = [malformed EXCEPT
                           ![r] = @ \/ ~WellFormed(after[id].frame_size, payload)]
        /\ IF result = "True"
           THEN \E confidence \in Detected :
                   files' = [files EXCEPT ![r] = @ \cup
                       {PreviewFrame(id, after[id].counter, confidence, frame_format)}]
           ELSE files' = files
        /\ IF result \in Exceptions
           THEN Send(r, result)
           ELSE status_pipe' = status_pipe /\ lost' = lost
        /\ proc' = [proc EXCEPT ![r] = "loop"]
        /\ UNCHANGED <<codec, settings, plugin, host, command_pipe, broken, disabled>>

\* Route with an add that an "exit" in the pipe interrupts before the frame is saved
RouteInterrupted(r, topic, payload) ==
    LET id == TopicId(topic)
        after == Routed(r, id, payload)
        result == AddResult(after[id].counter, frames_per_frame,
                            after[id].frame_size, payload)
    IN  /\ proc[r] = "body"
        /\ pending > 0
        /\ pending' = pending - 1
        /\ streams' = [streams EXCEPT ![r] = after]
        /\ received' = [received EXCEPT ![r][id] = @ + 1]
        /\ malformed' = [malformed EXCEPT
                           ![r] = @ \/ ~WellFormed(after[id].frame_size, payload)]
        /\ IF result = "True" /\ command_pipe[r] = 0
           THEN \E confidence \in Detected :
                   files' = [files EXCEPT ![r] = @ \cup
                       {PreviewFrame(id, after[id].counter, confidence, frame_format)}]
           ELSE files' = files
        /\ IF result \in Exceptions
           THEN /\ Send(r, result)
                /\ proc' = [proc EXCEPT ![r] = "return"]
           ELSE /\ status_pipe' = status_pipe
                /\ lost' = lost
                /\ proc' = [proc EXCEPT ![r] = "loop"]
        /\ UNCHANGED <<codec, settings, plugin, host, command_pipe, broken, disabled>>

\* frame_queue.recv(), the lookup or creation of the stream, streams[id].add(payload)
\* and, when add raises, the except clause that sends the exception
Route(r, topic, payload) ==
    LET id == TopicId(topic)
        after == Routed(r, id, payload)
        result == AddResult(after[id].counter, frames_per_frame,
                            after[id].frame_size, payload)
    IN  /\ proc[r] = "body"
        /\ pending > 0
        /\ pending' = pending - 1
        /\ streams' = [streams EXCEPT ![r] = after]
        /\ received' = [received EXCEPT ![r][id] = @ + 1]
        /\ malformed' = [malformed EXCEPT
                           ![r] = @ \/ ~WellFormed(after[id].frame_size, payload)]
        /\ IF result = "True"
           THEN \E confidence \in Detected :
                   files' = [files EXCEPT ![r] = @ \cup
                       {PreviewFrame(id, after[id].counter, confidence, frame_format)}]
           ELSE files' = files
        /\ IF result \in Exceptions
           THEN /\ Send(r, result)
                /\ proc' = [proc EXCEPT ![r] = "return"]
           ELSE /\ status_pipe' = status_pipe
                /\ lost' = lost
                /\ proc' = [proc EXCEPT ![r] = "loop"]
        /\ UNCHANGED <<codec, settings, plugin, host, command_pipe, broken, disabled>>

\* generate() has returned: the process terminates and its memory is gone
Exit(r) ==
    /\ proc[r] = "return"
    /\ proc' = [proc EXCEPT ![r] = "exited"]
    /\ streams' = [streams EXCEPT ![r] = << >>]
    /\ UNCHANGED <<codec, settings, plugin, host, command_pipe, status_pipe,
                   broken, files, pending, received, malformed, disabled, lost>>

\* Process.is_alive()
is_alive(r) == proc[r] \notin {"unborn", "exited"}

\* ------------------------------------------------------------- plugin

\* the peer of the status pipe goes away
StatusPipeBreaks(r) ==
    /\ status_receiver = r
    /\ ~broken[r]
    /\ broken' = [broken EXCEPT ![r] = TRUE]
    /\ UNCHANGED <<codec, settings, plugin, host, process, command_pipe, status_pipe,
                   disabled, lost>>

\* the plugin lets go of the receiving end of status pipe r: what was sent
\* and not received is gone
Dropped(r) ==
    /\ status_pipe' = [status_pipe EXCEPT ![r] = << >>]
    /\ lost' = IF \E i \in 1..Len(status_pipe[r]) : status_pipe[r][i] \in Exceptions
               THEN lost \cup {r} ELSE lost

\* recent_events with an except clause that keeps the pipes
recent_events_keeping ==
    /\ sup_pc = "ready"
    /\ last_call' = "recent_events"
    /\ IF status_receiver = 0
       THEN /\ raised' = "none"
            /\ UNCHANGED <<status_receiver, command_sender, status_pipe, disabled, lost>>
       ELSE IF broken[status_receiver]
       THEN /\ disabled' = disabled \cup {status_receiver}
            /\ raised' = "none"
            /\ UNCHANGED <<status_receiver, command_sender, status_pipe, lost>>
       ELSE IF status_pipe[status_receiver] = << >>
       THEN /\ raised' = "none"
            /\ UNCHANGED <<status_receiver, command_sender, status_pipe, disabled, lost>>
       ELSE /\ status_pipe' = [status_pipe EXCEPT ![status_receiver] = Tail(@)]
            /\ raised' = IF Head(status_pipe[status_receiver]) \in Exceptions
                         THEN Head(status_pipe[status_receiver])
                         ELSE "none"
            /\ UNCHANGED <<status_receiver, command_sender, disabled, lost>>
    /\ UNCHANGED <<codec, settings, worker, generator, sup_pc, spawned, process,
                   command_pipe, broken>>

\* Preview.recent_events
recent_events ==
    /\ sup_pc = "ready"
    /\ last_call' = "recent_events"
    /\ IF status_receiver = 0
       THEN /\ raised' = "none"
            /\ UNCHANGED <<status_receiver, command_sender, status_pipe, disabled, lost>>
       ELSE IF broken[status_receiver]
       THEN \* except BrokenPipeError
            /\ status_receiver' = 0
            /\ command_sender' = 0
            /\ disabled' = disabled \cup {status_receiver}
            /\ raised' = "none"
            /\ Dropped(status_receiver)
       ELSE IF status_pipe[status_receiver] = << >>
       THEN \* poll() is false
            /\ raised' = "none"
            /\ UNCHANGED <<status_receiver, command_sender, status_pipe, disabled, lost>>
       ELSE \* recv(): an exception is raised, anything else is logged
            /\ status_pipe' = [status_pipe EXCEPT ![status_receiver] = Tail(@)]
            /\ raised' = IF Head(status_pipe[status_receiver]) \in Exceptions
                         THEN Head(status_pipe[status_receiver])
                         ELSE "none"
            /\ UNCHANGED <<status_receiver, command_sender, disabled, lost>>
    /\ UNCHANGED <<codec, settings, worker, generator, sup_pc, spawned, process,
                   command_pipe, broken>>

\* Preview.__create_generator followed by Process(...).start(), lines 542-546
create_generator(r) ==
    /\ command_sender' = r
    /\ status_receiver' = r
    /\ generator' = r
    /\ worker' = r
    /\ spawned' = r
    /\ proc' = [proc EXCEPT ![r] = "start"]

\* on_notify_started without the test self.__worker is None
on_notify_started_unguarded(folder) ==
    /\ sup_pc = "ready"
    /\ last_call' = "recording.started"
    /\ IF folder = "present"
       THEN /\ raised' = "FileExistsError"
            /\ UNCHANGED <<worker, command_sender, status_receiver, generator,
                           spawned, proc>>
       ELSE /\ spawned < MaxRuns
            /\ create_generator(spawned + 1)
            /\ raised' = "none"
    /\ UNCHANGED <<codec, settings, sup_pc, streams, command_pipe, status_pipe, broken,
                   files, pending, received, malformed, disabled, lost>>

\* on_notify_started that raises FileNotFoundError for a folder that does
\* not exist instead of creating it
on_notify_started_checking(folder) ==
    /\ sup_pc = "ready"
    /\ last_call' = "recording.started"
    /\ IF worker = 0
       THEN IF folder # "dir"
            THEN /\ raised' = IF folder = "missing" THEN "FileNotFoundError"
                              ELSE "FileExistsError"
                 /\ UNCHANGED <<worker, command_sender, status_receiver, generator,
                                spawned, proc>>
            ELSE /\ spawned < MaxRuns
                 /\ create_generator(spawned + 1)
                 /\ raised' = "none"
       ELSE /\ raised' = "none"
            /\ UNCHANGED <<worker, command_sender, status_receiver, generator,
                           spawned, proc>>
    /\ UNCHANGED <<codec, settings, sup_pc, streams, command_pipe, status_pipe, broken,
                   files, pending, received, malformed, disabled, lost>>

\* Preview.on_notify, subject "recording.started"
on_notify_started(folder) ==
    /\ sup_pc = "ready"
    /\ last_call' = "recording.started"
    /\ IF worker = 0
       THEN IF folder = "present"
            THEN \* path.mkdir(parents=True) on an existing directory
                 /\ raised' = "FileExistsError"
                 /\ UNCHANGED <<worker, command_sender, status_receiver, generator,
                                spawned, proc>>
            ELSE /\ spawned < MaxRuns
                 /\ create_generator(spawned + 1)
                 /\ raised' = "none"
       ELSE \* no branch of the handler applies
            /\ raised' = "none"
            /\ UNCHANGED <<worker, command_sender, status_receiver, generator,
                           spawned, proc>>
    /\ UNCHANGED <<codec, settings, sup_pc, streams, command_pipe, status_pipe, broken,
                   files, pending, received, malformed, disabled, lost>>

\* on_notify_stopped without the test of self.__worker
on_notify_stopped_unguarded ==
    /\ sup_pc = "ready"
    /\ last_call' = "recording.stopped"
    /\ IF command_sender = 0
       THEN /\ raised' = "AttributeError"
            /\ UNCHANGED <<command_pipe, sup_pc>>
       ELSE /\ command_pipe[command_sender] < MaxPending
            /\ command_pipe' = [command_pipe EXCEPT ![command_sender] = @ + 1]
            /\ sup_pc' = "join"
            /\ raised' = "none"
    /\ UNCHANGED <<codec, settings, worker, command_sender, status_receiver, generator,
                   spawned, process, status_pipe, broken, disabled, lost>>

\* Preview.on_notify, subject "recording.stopped", up to self.__worker.join(3)
on_notify_stopped ==
    /\ sup_pc = "ready"
    /\ last_call' = "recording.stopped"
    /\ IF worker # 0 /\ is_alive(worker)
       THEN IF command_sender = 0
            THEN \* None.send("exit")
                 /\ raised' = "AttributeError"
                 /\ UNCHANGED <<command_pipe, sup_pc>>
            ELSE /\ command_pipe[command_sender] < MaxPending
                 /\ command_pipe' = [command_pipe EXCEPT ![command_sender] = @ + 1]
                 /\ sup_pc' = "join"
                 /\ raised' = "none"
       ELSE \* no branch of the handler applies
            /\ raised' = "none"
            /\ UNCHANGED <<command_pipe, sup_pc>>
    /\ UNCHANGED <<codec, settings, worker, command_sender, status_receiver, generator,
                   spawned, process, status_pipe, broken, disabled, lost>>

\* joined without the assertion on the exit code
joined_unasserted ==
    /\ sup_pc = "join"
    /\ UNCHANGED last_call
    /\ sup_pc' = "ready"
    /\ worker' = 0
    /\ status_receiver' = 0
    /\ command_sender' = 0
    /\ raised' = "none"
    /\ Dropped(status_receiver)
    /\ UNCHANGED <<codec, settings, generator, spawned, process, command_pipe,
                   broken, disabled>>

\* Preview.on_notify, subject "recording.stopped", from the return of join(3):
\* the assertion and the reset of the process properties
joined ==
    /\ sup_pc = "join"
    /\ UNCHANGED last_call
    /\ sup_pc' = "ready"
    /\ IF proc[worker] = "exited"
       THEN /\ worker' = 0
            /\ status_receiver' = 0
            /\ command_sender' = 0
            /\ raised' = "none"
            /\ Dropped(status_receiver)
       ELSE \* the three seconds have passed: assert exitcode is not None
            /\ raised' = "AssertionError"
            /\ UNCHANGED <<worker, status_receiver, command_sender, status_pipe, lost>>
    /\ UNCHANGED <<codec, settings, generator, spawned, process, command_pipe,
                   broken, disabled>>

\* ------------------------------------------------------------- file names

\* the decimal digits, Digit[d + 1] the digit of d
Digit == <<"0", "1", "2", "3", "4", "5", "6", "7", "8", "9">>

\* [0-9]
DigitChars == {Digit[i] : i \in 1..10}

\* [a-z]
LowerChars == {"a", "b", "c", "d", "e", "f", "g", "h", "i", "j", "k", "l", "m",
               "n", "o", "p", "q", "r", "s", "t", "u", "v", "w", "x", "y", "z"}

\* the literal parts of FILE_FORMAT = "eye{}_frame{}_confidence{:05.4f}.{}"
EyeText == <<"e", "y", "e">>
FrameText == <<"_", "f", "r", "a", "m", "e">>
ConfidenceText == <<"_", "c", "o", "n", "f", "i", "d", "e", "n", "c", "e">>

\* "{}".format(n) of an int n >= 0
RECURSIVE StrInt(_)
StrInt(n) ==
    IF n < 10 THEN <<Digit[n + 1]>>
    ELSE Append(StrInt(n \div 10), Digit[(n % 10) + 1])

\* StrConfidence with three decimals
StrConfidence3(c) ==
    StrInt(c \div 10000) \o <<".">>
        \o <<Digit[((c \div 1000) % 10) + 1], Digit[((c \div 100) % 10) + 1],
             Digit[((c \div 10) % 10) + 1]>>

\* "{:05.4f}".format(c) of a confidence of c ten-thousandths: the integer
\* part, the point and four decimals (never shorter than the width 5)
StrConfidence(c) ==
    StrInt(c \div 10000) \o <<".">>
        \o <<Digit[((c \div 1000) % 10) + 1], Digit[((c \div 100) % 10) + 1],
             Digit[((c \div 10) % 10) + 1], Digit[(c % 10) + 1]>>

\* PreviewFrame.Format.__str__: the value of the member
FormatValue(format) ==
    CASE format = "JPEG" -> <<"j", "p", "g">>
      [] format = "PNG" -> <<"p", "n", "g">>
      [] format = "BMP" -> <<"b", "m", "p">>

\* PreviewFrame.__str__
FrameStr(f) ==
    EyeText \o StrInt(f.eye_id) \o FrameText \o StrInt(f.frame_num)
        \o ConfidenceText \o StrConfidence(f.confidence) \o <<".">>
        \o FormatValue(f.format)

\* text[i..] starts with literal
StartsAt(text, i, literal) ==
    /\ i >= 1
    /\ i + Len(literal) - 1 <= Len(text)
    /\ SubSeq(text, i, i + Len(literal) - 1) = literal

\* [0-9]+
IsDigits(text) == text # << >> /\ \A i \in 1..Len(text) : text[i] \in DigitChars

\* [0-9]+(?:\.[0-9]+)?
IsNumber(text) ==
    \/ IsDigits(text)
    \/ \E i \in 2..(Len(text) - 1) :
          /\ text[i] = "."
          /\ IsDigits(SubSeq(text, 1, i - 1))
          /\ IsDigits(SubSeq(text, i + 1, Len(text)))

\* [a-z]+
IsWord(text) == text # << >> /\ \A i \in 1..Len(text) : text[i] \in LowerChars

\* ([0-9]+(?:\.[0-9]+)?|[a-z]+), the group that replaces each placeholder
IsGroup(text) == IsNumber(text) \/ IsWord(text)

\* the first position from i on where text has the character c, 0 if none
IndexFrom(text, i, c) ==
    IF \E j \in i..Len(text) : text[j] = c
    THEN CHOOSE j \in i..Len(text) : text[j] = c /\ \A k \in i..(j - 1) : text[k] # c
    ELSE 0

\* folder.glob(file_pattern) with file_pattern "eye*_frame*_confidence*.*":
\* whether the listing yields the file of this name
Globbed(text) ==
    /\ StartsAt(text, 1, EyeText)
    /\ \E i \in 4..Len(text) :
          /\ StartsAt(text, i, FrameText)
          /\ \E j \in (i + Len(FrameText))..Len(text) :
                /\ StartsAt(text, j, ConfidenceText)
                /\ \E k \in (j + Len(ConfidenceText))..Len(text) : text[k] = "."

\* info_extractor.fullmatch(file.name): the four groups, << >> for None.  A
\* group holds no "_", so the first two end at the next "_"; the third is
\* the longest that lets the rest match (the quantifiers are greedy), and
\* the "." of the template matches any character.
FullMatch(text) ==
    LET a == IndexFrom(text, 4, "_")
        b == IF a = 0 THEN 0 ELSE IndexFrom(text, a + Len(FrameText), "_")
        c == b + Len(ConfidenceText)
        n == Len(text)
        ends == {k \in c..(n - 2) :
                    IsGroup(SubSeq(text, c, k)) /\ IsGroup(SubSeq(text, k + 2, n))}
        k == CHOOSE x \in ends : \A y \in ends : y <= x
    IN  IF /\ StartsAt(text, 1, EyeText)
           /\ a > 4 /\ IsGroup(SubSeq(text, 4, a - 1))
           /\ StartsAt(text, a, FrameText)
           /\ b > a + Len(FrameText) /\ IsGroup(SubSeq(text, a + Len(FrameText), b - 1))
           /\ StartsAt(text, b, ConfidenceText)
           /\ ends # {}
        THEN <<SubSeq(text, 4, a - 1), SubSeq(text, a + Len(FrameText), b - 1),
               SubSeq(text, c, k), SubSeq(text, k + 2, n)>>
        ELSE << >>

\* the number a text of digits denotes
RECURSIVE Number(_)
Number(text) ==
    IF text = << >> THEN 0
    ELSE 10 * Number(SubSeq(text, 1, Len(text) - 1))
           + (CHOOSE d \in 0..9 : Digit[d + 1] = text[Len(text)])

\* int(text) raises ValueError
IntFails(text) == ~IsDigits(text)

\* float(text) raises ValueError: a group is a number or a word, and of the
\* words float takes only these
FloatFails(text) ==
    /\ ~IsNumber(text)
    /\ text \notin {<<"n", "a", "n">>, <<"i", "n", "f">>,
                    <<"i", "n", "f", "i", "n", "i", "t", "y">>}

\* float(text) in ten-thousandths, at the four decimals a file name keeps
\* (a fifth decimal rounds); "nan" and "inf" for the words float takes
Float(text) ==
    IF text = <<"n", "a", "n">> THEN "nan"
    ELSE IF ~IsNumber(text) THEN "inf"
    ELSE LET p == IndexFrom(text, 1, ".")
             whole == IF p = 0 THEN text ELSE SubSeq(text, 1, p - 1)
             decimals == IF p = 0 THEN << >> ELSE SubSeq(text, p + 1, Len(text))
             at(i) == IF i <= Len(decimals) THEN Number(<<decimals[i]>>) ELSE 0
         IN  Number(whole) * 10000 + at(1) * 1000 + at(2) * 100 + at(3) * 10 + at(4)
                 + (IF at(5) >= 5 THEN 1 ELSE 0)

\* PreviewFrame.Format.from_extension raises ValueError
ExtensionFails(text) == \A format \in Formats : FormatValue(format) # text

\* PreviewFrame.Format.from_extension
from_extension(text) == CHOOSE format \in Formats : FormatValue(format) = text

\* load_all, what the loop makes of one name of the folder: the name is not
\* listed or not matched ("skipped"), a conversion raises ("ValueError"), or
\* a PreviewFrame is appended to the collection of its eye
Decode(text) ==
    IF ~Globbed(text) \/ FullMatch(text) = << >> THEN "skipped"
    ELSE LET match == FullMatch(text)
         IN  IF \/ IntFails(match[1]) \/ IntFails(match[2])
                \/ FloatFails(match[3]) \/ ExtensionFails(match[4])
             THEN "ValueError"
             ELSE PreviewFrame(Number(match[1]), Number(match[2]), Float(match[3]),
                               from_extension(match[4]))

\* the frames whose names are written and read back
EyeIdsNamed == {0, 1, 7, 10}
FrameNumsNamed == {1, 3, 10, 1200}
ConfidencesNamed == {0, 1, 5000, 9871, 10000}
FramesNamed ==
    {PreviewFrame(e, n, c, f) :
        e \in EyeIdsNamed, n \in FrameNumsNamed, c \in ConfidencesNamed, f \in Formats}

\* PreviewFrame.save: the file is named str(self)
Save ==
    /\ name = << >>
    /\ \E f \in frame : name' = FrameStr(f)
    /\ UNCHANGED <<frame, decoded, entries, loaded, settings, plugin, host, process,
                   command_pipe, status_pipe, broken, disabled, lost>>

\* PreviewFrame.load_all on the folder that holds the file
Load ==
    /\ name # << >>
    /\ decoded = {}
    /\ decoded' = {Decode(name)}
    /\ UNCHANGED <<frame, name, entries, loaded, settings, plugin, host, process,
                   command_pipe, status_pipe, broken, disabled, lost>>

\* ------------------------------------------------------------- loader

\* the loop of load_all passes over the file of this name: glob does not
\* yield it, or fullmatch returns None
Skips(text) == ~Globbed(text) \/ FullMatch(text) = << >>

\* the loop of load_all raises ValueError at the file of this name: int,
\* float or from_extension does not take the group it is given
Raises(text) ==
    /\ ~Skips(text)
    /\ \/ IntFails(FullMatch(text)[1]) \/ IntFails(FullMatch(text)[2])
       \/ FloatFails(FullMatch(text)[3]) \/ ExtensionFails(FullMatch(text)[4])

\* the PreviewFrames the loop of load_all builds, in the order of the listing
Frames(listing) ==
    LET names == SelectSeq(listing, LAMBDA text : ~Skips(text))
    IN  [i \in 1..Len(names) |-> Decode(names[i])]

\* collections.keys(): the eye ids in the order of their first frame
RECURSIVE Keys(_)
Keys(frames) ==
    IF frames = << >> THEN << >>
    ELSE LET before == Keys(SubSeq(frames, 1, Len(frames) - 1))
             id == frames[Len(frames)].eye_id
         IN  IF \E i \in 1..Len(before) : before[i] = id
             THEN before
             ELSE Append(before, id)

\* collections[id]: the frames of one eye in the order of the listing
Collection(frames, id) == SelectSeq(frames, LAMBDA f : f.eye_id = id)

\* SortByFrameNum that leaves the collection as it is
Unsorted(collection) == collection

\* collection.sort(key=lambda x: x.frame_num): ascending and stable
RECURSIVE SortByFrameNum(_)
SortByFrameNum(collection) ==
    IF collection = << >> THEN << >>
    ELSE LET sorted == SortByFrameNum(SubSeq(collection, 1, Len(collection) - 1))
             x == collection[Len(collection)]
             k == Cardinality({i \in 1..Len(sorted) : sorted[i].frame_num <= x.frame_num})
         IN  SubSeq(sorted, 1, k) \o <<x>> \o SubSeq(sorted, k + 1, Len(sorted))

\* tuple(zip(*columns)): as many tuples as the shortest column has frames,
\* none when there is no column
Zip(columns) ==
    IF columns = << >> THEN << >>
    ELSE LET n == CHOOSE m \in {Len(columns[j]) : j \in 1..Len(columns)} :
                      \A j \in 1..Len(columns) : m <= Len(columns[j])
         IN  [i \in 1..n |-> [j \in 1..Len(columns) |-> columns[j][i]]]

\* PreviewFrame.load_all on a folder whose glob yields the names of listing:
\* what the call raises, "none" when it returns, and the value it returns
LoadAll(listing) ==
    IF \E i \in 1..Len(listing) : Raises(listing[i])
    THEN [call |-> "ValueError", value |-> << >>]
    ELSE LET frames == Frames(listing)
             keys == Keys(frames)
         IN  [call |-> "returned",
              value |-> Zip([j \in 1..Len(keys) |->
                                SortByFrameNum(Collection(frames, keys[j]))])]

\* the first to the last entry in the opposite order
Reverse(listing) == [i \in 1..Len(listing) |-> listing[Len(listing) + 1 - i]]

\* the orders in which glob yields the entries of the folder: that of their
\* creation or the opposite one
Listings == {entries, Reverse(entries)}

\* the name is the name of an entry of the folder
InFolder(text) == \E i \in 1..Len(entries) : entries[i] = text

\* the frames workers save in one folder: JPEG frames of eye 0 with every
\* number and of eye 7 with the even numbers, and a PNG frame of eye 0 that
\* has the number 1 too
FramesSaved ==
    {PreviewFrame(0, n, 9871, "JPEG") : n \in 1..MaxFrameNum}
        \cup {PreviewFrame(7, n, 9871, "JPEG") : n \in {m \in 1..(MaxFrameNum + 1) : m % 2 = 0}}
        \cup {PreviewFrame(0, 1, 5000, "PNG")}

\* PreviewFrame.save as ImageStream.add calls it: the frames of an eye are
\* saved with ascending numbers, in any order of the eyes
SaveFrame(f) ==
    /\ loaded.call = "none"
    /\ ~InFolder(FrameStr(f))
    /\ \A g \in FramesSaved :
          g.eye_id = f.eye_id /\ InFolder(FrameStr(g)) => g.frame_num <= f.frame_num
    /\ entries' = Append(entries, FrameStr(f))
    /\ UNCHANGED <<frame, name, decoded, loaded, settings, plugin, host, process,
                   command_pipe, status_pipe, broken, disabled, lost>>

\* a file name with the literal parts of FILE_FORMAT around four texts
Named(eye_id, frame_num, confidence, extension) ==
    EyeText \o eye_id \o FrameText \o frame_num \o ConfidenceText \o confidence
        \o <<".">> \o extension

\* the names of the files found in a folder: of saved frames, of a file
\* that has nothing of FILE_FORMAT, and of files that have its literal parts
\* with a backup suffix, a word or a fraction as eye id, an extension that
\* is no Format, a confidence of one decimal, and another separator
NamesFound ==
    {FrameStr(PreviewFrame(0, 1, 9871, "JPEG")),
     FrameStr(PreviewFrame(7, 2, 5000, "PNG")),
     FrameStr(PreviewFrame(7, 1, 10000, "BMP")),
     <<"n", "o", "t", "e", "s", ".", "t", "x", "t">>,
     FrameStr(PreviewFrame(0, 1, 9871, "JPEG")) \o <<".", "b", "a", "k">>,
     Named(<<"a", "b", "c">>, <<"1">>, <<"0", ".", "5", "0", "0", "0">>, <<"j", "p", "g">>),
     Named(<<"1", ".", "5">>, <<"1">>, <<"0", ".", "5", "0", "0", "0">>, <<"j", "p", "g">>),
     Named(<<"0">>, <<"3">>, <<"0", ".", "9", "8", "7", "1">>, <<"g", "i", "f">>),
     Named(<<"0">>, <<"2">>, <<"0", ".", "5">>, <<"j", "p", "g">>),
     EyeText \o <<"0">> \o FrameText \o <<"4">> \o ConfidenceText
         \o <<"0", ".", "5", "0", "0", "0", "x", "j", "p", "g">>}

\* some program writes a file of this name into the folder
PutFile(text) ==
    /\ loaded.call = "none"
    /\ Len(entries) < MaxFound
    /\ ~InFolder(text)
    /\ entries' = Append(entries, text)
    /\ UNCHANGED <<frame, name, decoded, loaded, settings, plugin, host, process,
                   command_pipe, status_pipe, broken, disabled, lost>>

\* PreviewFrame.load_all(folder), once the folder is written
load_all(listing) ==
    /\ loaded.call = "none"
    /\ loaded' = LoadAll(listing)
    /\ UNCHANGED <<frame, name, decoded, entries, settings, plugin, host, process,
                   command_pipe, status_pipe, broken, disabled, lost>>

\* ------------------------------------------------------------- system

\* Preview.__init__
Created ==
    /\ worker = 0
    /\ command_sender = 0
    /\ status_receiver = 0
    /\ generator = 0
    /\ sup_pc = "ready"
    /\ last_call = "none"
    /\ raised = "none"
    /\ spawned = 0
    /\ proc = [r \in Runs |-> "unborn"]
    /\ streams = [r \in Runs |-> << >>]
    /\ command_pipe = [r \in Runs |-> 0]
    /\ status_pipe = [r \in Runs |-> << >>]
    /\ broken = [r \in Runs |-> FALSE]
    /\ files = [r \in Runs |-> {}]
    /\ received = [r \in Runs |-> [id \in EyeIds |-> 0]]
    /\ malformed = [r \in Runs |-> FALSE]
    /\ disabled = {}
    /\ lost = {}

\* the plugin with its settings, in front of a source of plain traffic
Init ==
    /\ Created
    /\ frames_per_frame \in 1..MaxInterval
    /\ frame_format = "JPEG"
    /\ traffic = "plain"
    /\ pending = MaxRunPayloads
    /\ frame = {}
    /\ name = << >>
    /\ decoded = {}
    /\ entries = << >>
    /\ loaded = [call |-> "none", value |-> << >>]

Worker(r) ==
    \/ Connect(r)
    \/ Subscribe(r)
    \/ PollCommand(r)
    \/ NoData(r)
    \/ \E published \in Published : Route(r, published[1], published[2])
    \/ Exit(r)

Next ==
    \/ \E r \in Runs : Worker(r)
    \/ \E r \in Runs : StatusPipeBreaks(r)
    \/ recent_events
    \/ \E folder \in FolderStates : on_notify_started(folder)
    \/ on_notify_stopped
    \/ joined

Spec == Init /\ [][Next]_vars

\* the plugin after a first recording.started, in front of a source of any traffic
InitWorker ==
    /\ frames_per_frame \in 1..MaxInterval
    /\ frame_format = "JPEG"
    /\ traffic = "any"
    /\ pending = MaxPayloads
    /\ worker = 1
    /\ command_sender = 1
    /\ status_receiver = 1
    /\ generator = 1
    /\ sup_pc = "ready"
    /\ last_call = "recording.started"
    /\ raised = "none"
    /\ spawned = 1
    /\ proc = [r \in Runs |-> IF r = 1 THEN "start" ELSE "unborn"]
    /\ streams = [r \in Runs |-> << >>]
    /\ command_pipe = [r \in Runs |-> 0]
    /\ status_pipe = [r \in Runs |-> << >>]
    /\ broken = [r \in Runs |-> FALSE]
    /\ files = [r \in Runs |-> {}]
    /\ received = [r \in Runs |-> [id \in EyeIds |-> 0]]
    /\ malformed = [r \in Runs |-> FALSE]
    /\ disabled = {}
    /\ lost = {}
    /\ frame = {}
    /\ name = << >>
    /\ decoded = {}
    /\ entries = << >>
    /\ loaded = [call |-> "none", value |-> << >>]

\* the worker process and the recording.stopped that ends it
NextWorker ==
    \/ \E r \in Runs : Worker(r)
    \/ on_notify_stopped
    \/ joined

SpecWorker == InitWorker /\ [][NextWorker]_vars

\* ------------------------------------------------------------- sampling

\* the PreviewFrames process r saved for eye id
Saved(r, id) == {f \in files[r] : f.eye_id = id}

\* process r has just sent exception e and is leaving generate()
Failed(r, e) ==
    /\ proc'[r] = "return"
    /\ \/ status_pipe'[r] = Append(status_pipe[r], e)
       \/ lost' = lost \cup {r} /\ r \notin lost

\* the frame size of the stream a payload of eye id is routed to
SizeFor(r, id, payload) ==
    IF id \in DOMAIN streams[r]
    THEN streams[r][id].frame_size
    ELSE <<payload.width, payload.height>>

\* C1: while every payload a process received was well formed, it has saved
\* for each eye exactly floor(N / K) frames, N the number of payloads of that
\* eye and K the sampling interval, one for each multiple of K up to N; the
\* payloads of the other eyes play no part in it.
C1_Sampling ==
    \A r \in Runs : ~malformed[r] =>
        \A id \in EyeIds :
            LET n == received[r][id] \div frames_per_frame
            IN  /\ Cardinality(Saved(r, id)) = n
                /\ {f.frame_num : f \in Saved(r, id)}
                       = {frames_per_frame * i : i \in 1..n}

\* C1, its scenario: interval 3, three well formed payloads of eye 7, one
\* JPEG frame with frame number 3
C1_Witness ==
    /\ frames_per_frame = 3
    /\ frame_format = "JPEG"
    /\ ~malformed[1]
    /\ received[1][7] = 3
    /\ \E f \in files[1] : Saved(1, 7) = {f} /\ f.frame_num = 3 /\ f.format = "JPEG"

\* process r has just routed a payload of eye id
RoutedTo(r, id) == proc[r] = "body" /\ received'[r][id] # received[r][id]

\* C3 as amended: a payload in an unsupported format never leaves a file; it
\* makes add fail with NotImplementedError when it is a sampled one (the
\* count of its eye's payloads is a multiple of the interval), and is
\* skipped without any error otherwise.
C3_UnsupportedWhenSampled ==
    [][\A r \in Runs, published \in Published :
          LET id == TopicId(published[1])
              payload == published[2]
          IN  /\ payload.format \notin {"gray", "bgr", "jpeg"}
              /\ RoutedTo(r, id)
              /\ Route(r, published[1], payload)
              => /\ files' = files
                 /\ IF received'[r][id] % frames_per_frame = 0
                    THEN Failed(r, "NotImplementedError")
                    ELSE proc'[r] = "loop" /\ status_pipe' = status_pipe /\ lost' = lost
      ]_vars

\* C3 as claimed: a payload in an unsupported format makes add fail with
\* NotImplementedError and leaves no file, whatever the counter is
C3_UnsupportedAlways ==
    [][\A r \in Runs, published \in Published :
          /\ published[2].format \notin {"gray", "bgr", "jpeg"}
          /\ RoutedTo(r, TopicId(published[1]))
          /\ Route(r, published[1], published[2])
          => files' = files /\ Failed(r, "NotImplementedError")
      ]_vars

\* C3: a process stopped by an unsupported format at its second sampled payload
C3_Witness ==
    /\ frames_per_frame = 2
    /\ proc[1] = "return"
    /\ received[1][7] = 2
    /\ status_pipe[1] = <<"Connecting", "Starting", "NotImplementedError">>
    /\ files[1] = {}
    /\ malformed[1]

\* a gray or bgr payload whose buffer has not the length of its stream's frames
Mismatch(r, id, payload) ==
    /\ payload.format \in {"gray", "bgr"}
    /\ payload.len # SizeFor(r, id, payload)[1] * SizeFor(r, id, payload)[2]
                         * (IF payload.format = "gray" THEN 1 ELSE 3)

\* C4 as amended: a gray or bgr payload whose buffer length differs from
\* width * height * channels of its stream never leaves a file; it makes add
\* fail with RuntimeWarning when it is a sampled one and is skipped without
\* any error otherwise; a jpeg payload never fails with RuntimeWarning.
C4_MismatchWhenSampled ==
    [][\A r \in Runs, published \in Published :
          LET id == TopicId(published[1])
              payload == published[2]
          IN  /\ RoutedTo(r, id) /\ Mismatch(r, id, payload)
                     /\ Route(r, published[1], payload)
                 => /\ files' = files
                    /\ IF received'[r][id] % frames_per_frame = 0
                       THEN Failed(r, "RuntimeWarning")
                       ELSE proc'[r] = "loop" /\ status_pipe' = status_pipe /\ lost' = lost
              /\ RoutedTo(r, id) /\ payload.format = "jpeg"
                     /\ Route(r, published[1], payload)
                 => ~Failed(r, "RuntimeWarning")
      ]_vars

\* C4 as claimed: such a payload makes add fail with RuntimeWarning and leaves
\* no file, whatever the counter is; a jpeg payload never fails with it
C4_MismatchAlways ==
    [][\A r \in Runs, published \in Published :
          LET id == TopicId(published[1])
              payload == published[2]
          IN  /\ RoutedTo(r, id) /\ Mismatch(r, id, payload)
                     /\ Route(r, published[1], payload)
                 => files' = files /\ Failed(r, "RuntimeWarning")
              /\ RoutedTo(r, id) /\ payload.format = "jpeg"
                     /\ Route(r, published[1], payload)
                 => ~Failed(r, "RuntimeWarning")
      ]_vars

\* C4: a process stopped by a buffer of the wrong length at its second
\* sampled payload, after a frame was saved
C4_Witness ==
    /\ frames_per_frame = 1
    /\ proc[1] = "return"
    /\ received[1][0] = 2
    /\ status_pipe[1] = <<"Connecting", "Starting", "RuntimeWarning">>
    /\ Cardinality(files[1]) = 1
    /\ malformed[1]

\* ------------------------------------------------------------- supervision

\* what a call of the plugin must leave alone to have done nothing
supervision == <<worker, command_sender, status_receiver, generator, sup_pc, spawned,
                 proc, command_pipe, status_pipe>>

\* C5 as amended: a recording.started received while the plugin holds a
\* worker is ignored: it raises nothing, starts no second process and leaves
\* the worker and both pipe ends as they are.
C5_StartIgnoredWhileRunning ==
    [][\A folder \in FolderStates :
          on_notify_started(folder) /\ worker # 0
          => raised' = "none" /\ UNCHANGED supervision
      ]_vars

\* C5 as claimed: such a recording.started fails with an error and changes nothing
C5_StartFailsWhileRunning ==
    [][\A folder \in FolderStates :
          on_notify_started(folder) /\ worker # 0
          => raised' = "AlreadyRunning" /\ UNCHANGED supervision
      ]_vars

\* C5: a recording.started has arrived after the worker's first message was
\* polled, and the one process is still in its loop
C5_Witness ==
    /\ last_call = "recording.started"
    /\ raised = "none"
    /\ worker = 1
    /\ spawned = 1
    /\ proc[1] = "loop"
    /\ status_pipe[1] = <<"Starting">>

\* C6 as amended: a recording.stopped received while the plugin holds no
\* worker is ignored: it raises nothing, sends no "exit" and leaves the
\* plugin as it is.
C6_StopIgnoredWhenIdle ==
    [][on_notify_stopped /\ worker = 0
       => raised' = "none" /\ UNCHANGED supervision
      ]_vars

\* C6 as claimed: such a recording.stopped fails with a state error
C6_StopFailsWhenIdle ==
    [][on_notify_stopped /\ worker = 0
       => raised' = "StateError" /\ UNCHANGED supervision
      ]_vars

\* C6: a recording.stopped has arrived before any recording.started
C6_Witness ==
    /\ last_call = "recording.stopped"
    /\ raised = "none"
    /\ worker = 0
    /\ spawned = 0

\* C7: the plugin lets go of its worker only when the process has exited, and
\* then without an error; when join returns and the process has not exited,
\* the call raises AssertionError and the plugin keeps the worker.
C7_StopJoinsWorker ==
    [][/\ worker # 0 /\ worker' = 0
          => proc[worker] = "exited" /\ raised' = "none"
       /\ sup_pc = "join" /\ sup_pc' = "ready" /\ proc[worker] # "exited"
          => raised' = "AssertionError" /\ worker' = worker
      ]_vars

\* C7: a first recording.stopped has timed out in join, a second one has
\* joined the exited process
C7_Witness ==
    /\ last_call = "recording.stopped"
    /\ raised = "none"
    /\ worker = 0
    /\ proc[1] = "exited"
    /\ command_pipe[1] = 2

\* C8: at most one "exit" is ever sent on the command pipe of a run
C8_OneCancelPerRun ==
    \A r \in Runs : command_pipe[r] <= 1

\* C9: no exception a worker sent on a status pipe that is not broken is
\* lost before a call of recent_events raised it
C9_NoExceptionLost ==
    \A r \in lost : broken[r]

\* C10: a recent_events that finds the status pipe broken raises nothing and
\* lets go of the pipe, and the plugin never again holds the receiving end
\* of a status pipe it found broken (a new start creates another pipe).
C10_BrokenPipeDisablesPolling ==
    [][/\ recent_events /\ status_receiver # 0 /\ broken[status_receiver]
          => raised' = "none" /\ status_receiver' = 0
       /\ \A r \in disabled' : status_receiver' # r /\ status_pipe'[r] = << >>
      ]_vars

\* C10: recent_events has found the status pipe of a living worker broken
C10_Witness ==
    /\ last_call = "recent_events"
    /\ raised = "none"
    /\ 1 \in disabled
    /\ status_receiver = 0
    /\ is_alive(1)

\* ------------------------------------------------------------- round trip

\* a PreviewFrame in memory, the plugin as created
InitCodec ==
    /\ Created
    /\ frames_per_frame = 1
    /\ frame_format = "JPEG"
    /\ traffic = "plain"
    /\ pending = 0
    /\ frame \in {{f} : f \in FramesNamed}
    /\ name = << >>
    /\ decoded = {}
    /\ entries = << >>
    /\ loaded = [call |-> "none", value |-> << >>]

NextCodec ==
    \/ Save
    \/ Load

SpecCodec == InitCodec /\ [][NextCodec]_vars

\* C2: the file name of a PreviewFrame with eye_id >= 0, frame_num >= 1, a
\* confidence of 0 to 10000 ten-thousandths and one of the three formats is
\* read back by load_all as a PreviewFrame with the same four fields.
C2_RoundTrip ==
    decoded # {} => decoded = frame

\* C2: a frame with two-digit eye id, four-digit frame number and four
\* significant decimals has been read back from its name
C2_Witness ==
    /\ decoded = {PreviewFrame(10, 1200, 9871, "PNG")}
    /\ decoded = frame
    /\ name = FrameStr(PreviewFrame(10, 1200, 9871, "PNG"))

\* ------------------------------------------------------------- alignment

\* a folder that is empty, filled by workers and then loaded
InitLoader ==
    /\ Created
    /\ frames_per_frame = 1
    /\ frame_format = "JPEG"
    /\ traffic = "plain"
    /\ pending = 0
    /\ frame = {}
    /\ name = << >>
    /\ decoded = {}
    /\ entries = << >>
    /\ loaded = [call |-> "none", value |-> << >>]

NextLoader ==
    \/ \E f \in FramesSaved : SaveFrame(f)
    \/ \E listing \in Listings : load_all(listing)

SpecLoader == InitLoader /\ [][NextLoader]_vars

\* the PreviewFrames of the files of the folder that load_all decodes
FramesIn == {Decode(entries[i]) : i \in {k \in 1..Len(entries) : ~Skips(entries[k])}}

\* those of one eye
FramesOf(frames, id) == {f \in frames : f.eye_id = id}

\* C11: load_all on a folder of saved frames returns as many tuples as the
\* eye with the fewest frames has frames (none for a folder without frames);
\* the tuple at position i holds one frame of every eye, the one at position
\* i of that eye's frames in ascending frame number, whatever the numbers
\* are, and no frame is in two tuples.
C11_Alignment ==
    loaded.call # "none" =>
        \A frames \in {FramesIn} :
            LET ids == {f.eye_id : f \in frames}
                counts == {Cardinality(FramesOf(frames, id)) : id \in ids}
                n == IF ids = {} THEN 0
                     ELSE CHOOSE m \in counts : \A c \in counts : m <= c
                result == loaded.value
            IN  /\ loaded.call = "returned"
                /\ Len(result) = n
                /\ \A i \in 1..n :
                      /\ Len(result[i]) = Cardinality(ids)
                      /\ {result[i][j].eye_id : j \in 1..Len(result[i])} = ids
                      /\ \A j \in 1..Len(result[i]) :
                            LET x == result[i][j]
                                same == FramesOf(frames, x.eye_id)
                            IN  /\ x \in frames
                                /\ Cardinality({y \in same : y.frame_num < x.frame_num}) < i
                                /\ i <= Cardinality({y \in same : y.frame_num <= x.frame_num})
                /\ \A i \in 1..n, k \in 1..n :
                      i # k => \A j \in 1..Len(result[i]) : result[i][j] # result[k][j]

\* C11: five frames of eye 0 and three of eye 7 with other numbers give three
\* tuples, the last of them the frames 3 and 6
C11_Witness ==
    /\ loaded.call = "returned"
    /\ Cardinality(FramesOf(FramesIn, 0)) = 5
    /\ Cardinality(FramesOf(FramesIn, 7)) = 3
    /\ Len(loaded.value) = 3
    /\ loaded.value[3] = <<PreviewFrame(0, 3, 9871, "JPEG"), PreviewFrame(7, 6, 9871, "JPEG")>>

\* ------------------------------------------------------------- foreign files

NextFolder ==
    \/ \E text \in NamesFound : PutFile(text)
    \/ \E listing \in Listings : load_all(listing)

\* a folder that is empty, filled with any files and then loaded
SpecFolder == InitLoader /\ [][NextFolder]_vars

\* the text is a name __str__ produces, with any word as extension: the
\* literal parts of FILE_FORMAT around two integers, a number with four
\* decimals and the word
IsTemplate(text) ==
    \E a \in 5..Len(text), b \in 12..Len(text), c \in 24..Len(text) :
        /\ text[1] = "e" /\ text[2] = "y" /\ text[3] = "e"
        /\ IsDigits(SubSeq(text, 4, a - 1))
        /\ StartsAt(text, a, FrameText)
        /\ IsDigits(SubSeq(text, a + 6, b - 1))
        /\ StartsAt(text, b, ConfidenceText)
        /\ IsDigits(SubSeq(text, b + 11, c - 1))
        /\ text[c] = "."
        /\ IsDigits(SubSeq(text, c + 1, c + 4))
        /\ c + 5 < Len(text)
        /\ text[c + 5] = "."
        /\ IsWord(SubSeq(text, c + 6, Len(text)))

\* the extension of such a name
Extension(text) ==
    SubSeq(text, 1 + (CHOOSE k \in 1..Len(text) :
                         text[k] = "." /\ \A m \in (k + 1)..Len(text) : text[m] # "."),
           Len(text))

\* the extension of such a name is the value of a Format
KnownExtension(text) == \E format \in Formats : FormatValue(format) = Extension(text)

\* C12: load_all on a folder of any files, none of them a template name with
\* an extension that is no Format, raises nothing and returns what it
\* returns for the folder without the files whose name is no template name.
C12_ForeignFilesSkipped ==
    /\ loaded.call # "none"
    /\ \A i \in 1..Len(entries) : IsTemplate(entries[i]) => KnownExtension(entries[i])
    => /\ loaded.call = "returned"
       /\ \E listing \in Listings :
             loaded.value = LoadAll(SelectSeq(listing, IsTemplate)).value

\* C13: load_all on a folder of files with template names raises nothing and
\* returns what it returns for the folder without the files whose extension
\* is no Format.
C13_UnknownExtensionSkipped ==
    /\ loaded.call # "none"
    /\ \A i \in 1..Len(entries) : IsTemplate(entries[i])
    => /\ loaded.call = "returned"
       /\ \E listing \in Listings :
             loaded.value = LoadAll(SelectSeq(listing, KnownExtension)).value

\* C14: when load_all returns, every file name it made a PreviewFrame of is
\* the name __str__ gives that PreviewFrame.
C14_DecodedNamesAreEncoded ==
    loaded.call = "returned" =>
        \A i \in 1..Len(entries) :
            ~Skips(entries[i]) => FrameStr(Decode(entries[i])) = entries[i]

\* ------------------------------------------------------------- start and stop

\* C15 as amended: a recording.started that finds no worker and no folder
\* creates the folder and starts a worker, whose pipe ends the plugin then
\* holds, and raises nothing; one that finds the path of the folder taken
\* raises FileExistsError before anything is started and leaves the plugin
\* without worker and without pipe ends, as it was.
C15_MissingFolderCreated ==
    [][\A folder \in FolderStates :
          on_notify_started(folder) /\ worker = 0
          => /\ folder = "missing"
                => /\ raised' = "none"
                   /\ worker' = spawned + 1
                   /\ proc'[worker'] = "start"
                   /\ command_sender' = worker'
                   /\ status_receiver' = worker'
             /\ folder = "present"
                => /\ raised' = "FileExistsError"
                   /\ worker' = 0
                   /\ UNCHANGED supervision
      ]_vars

\* C15 as claimed: a recording.started that finds no worker and no folder
\* raises FileNotFoundError and starts nothing
C15_MissingFolderFails ==
    [][on_notify_started("missing") /\ worker = 0
       => raised' = "FileNotFoundError" /\ UNCHANGED supervision
      ]_vars

\* C15: after a run that has ended, a recording.started has found the path
\* of its folder taken, and the plugin is without worker and pipe ends
C15_Witness ==
    /\ last_call = "recording.started"
    /\ raised = "FileExistsError"
    /\ worker = 0
    /\ command_sender = 0
    /\ status_receiver = 0
    /\ spawned = 1
    /\ proc[1] = "exited"

\* C16: a recording.stopped that finds a worker whose process has exited by
\* itself lets go of the worker and of both pipe ends.
C16_StopReturnsToIdle ==
    [][on_notify_stopped /\ worker # 0 /\ proc[worker] = "exited"
       => worker' = 0 /\ status_receiver' = 0 /\ command_sender' = 0
      ]_vars

\* C17: a recording.stopped that finds a living worker whose status pipe
\* recent_events has found broken sends "exit" on the command pipe and
\* raises nothing.
C17_StopAfterBrokenPipe ==
    [][on_notify_stopped /\ worker # 0 /\ is_alive(worker) /\ worker \in disabled
       => /\ raised' = "none"
          /\ command_pipe'[worker] = command_pipe[worker] + 1
      ]_vars

\* ------------------------------------------------------------- worker loop

\* the worker process is scheduled as long as it has a step to take
SpecWorkerFair == SpecWorker /\ \A r \in Runs : WF_vars(Worker(r))

\* C18: once "exit" is in the command pipe of a worker, the process exits;
\* the test of the loop that finds it there leaves the loop, and from then
\* on the process receives no payload and saves no frame.
C18_CancelHonoured ==
    /\ \A r \in Runs : command_pipe[r] > 0 ~> proc[r] = "exited"
    /\ [][\A r \in Runs :
             /\ proc[r] = "loop" /\ command_pipe[r] > 0 /\ proc'[r] # proc[r]
                => proc'[r] = "return"
             /\ proc[r] \in {"return", "exited"} /\ command_pipe[r] > 0
                => /\ proc'[r] \in {"return", "exited"}
                   /\ received'[r] = received[r]
                   /\ files'[r] = files[r]
        ]_vars

\* C18: the worker has saved two frames, found the "exit" of a
\* recording.stopped and exited while the plugin waits in join
C18_Witness ==
    /\ sup_pc = "join"
    /\ proc[1] = "exited"
    /\ command_pipe[1] = 1
    /\ status_pipe[1] = <<"Connecting", "Starting">>
    /\ frames_per_frame = 1
    /\ received[1][7] = 2
    /\ Cardinality(files[1]) = 2

\* process r sends a message on its status pipe
Sends(r) ==
    \/ Len(status_pipe'[r]) > Len(status_pipe[r])
    \/ r \in lost' /\ r \notin lost /\ proc'[r] # proc[r]

\* C19: the step of a worker in which add raises sends one message, the
\* exception, ends the loop and saves nothing, and no other step sends an
\* exception; a worker that has left its loop sends no message, receives no
\* payload and leaves the saved frames as they are.
C19_ErrorIsTerminal ==
    [][\A r \in Runs :
          /\ proc[r] = "body" /\ proc'[r] = "return"
             => /\ \E e \in Exceptions : Failed(r, e)
                /\ Len(status_pipe'[r]) <= Len(status_pipe[r]) + 1
                /\ files' = files
          /\ (\E e \in Exceptions : status_pipe'[r] = Append(status_pipe[r], e))
             => proc[r] = "body" /\ proc'[r] = "return"
          /\ proc[r] \in {"return", "exited"}
             => /\ proc'[r] \in {"return", "exited"}
                /\ ~Sends(r)
                /\ received'[r] = received[r]
                /\ files'[r] = files[r]
      ]_vars

\* C19: a worker that saved a frame of each eye has sent the exception of a
\* third payload as its last message and has exited
C19_Witness ==
    /\ proc[1] = "exited"
    /\ command_pipe[1] = 0
    /\ status_pipe[1] = <<"Connecting", "Starting", "NotImplementedError">>
    /\ Cardinality(Saved(1, 0)) = 1
    /\ Cardinality(Saved(1, 7)) = 1
    /\ pending = 0

\* C20: a worker takes a payload only in an iteration whose test found no
\* "exit"; an "exit" that arrives leaves the process, its streams and the
\* saved frames alone; and when the test of the loop ends it, every stream
\* has saved counter div K frames, K the sampling interval.
C20_CoarseCancellation ==
    [][\A r \in Runs :
          /\ proc'[r] = "body" /\ proc[r] # "body"
             => proc[r] = "loop" /\ command_pipe[r] = 0
          /\ received'[r] # received[r]
             => proc[r] = "body" /\ proc'[r] \in {"loop", "return"}
          /\ command_pipe'[r] # command_pipe[r]
             => proc'[r] = proc[r] /\ streams'[r] = streams[r] /\ files'[r] = files[r]
          /\ proc[r] = "loop" /\ proc'[r] = "return"
             => /\ command_pipe[r] > 0
                /\ \A id \in DOMAIN streams[r] :
                      Cardinality(Saved(r, id)) = streams[r][id].counter \div frames_per_frame
      ]_vars

\* C20: the loop of a worker with interval 2 has been ended by an "exit"
\* after three payloads of eye 0, one frame saved
C20_Witness ==
    /\ proc[1] = "return"
    /\ command_pipe[1] = 1
    /\ status_pipe[1] = <<"Connecting", "Starting">>
    /\ frames_per_frame = 2
    /\ 0 \in DOMAIN streams[1]
    /\ streams[1][0].counter = 3
    /\ Saved(1, 0) # {}
    /\ Cardinality(files[1]) = 1

\* ------------------------------------------------------------- frame numbers

\* C21: every frame a worker saves has a frame number above those of the
\* frames it saved for the same eye before, so no two frames a worker saved
\* have the same eye id and frame number, however the payloads of the eyes
\* arrive.
C21_IncreasingFrameNums ==
    /\ [][\A r \in Runs : \A f \in files'[r] \ files[r] : \A g \in files[r] :
             g.eye_id = f.eye_id => g.frame_num < f.frame_num
        ]_vars
    /\ [](\A r \in Runs : \A f \in files[r], g \in files[r] :
             f.eye_id = g.eye_id /\ f.frame_num = g.frame_num => f = g)

\* C21: a worker with interval 1 has saved the frames 1 and 2 of eye 7 and
\* the frame 1 of eye 0
C21_Witness ==
    /\ frames_per_frame = 1
    /\ {f.frame_num : f \in Saved(1, 7)} = {1, 2}
    /\ {f.frame_num : f \in Saved(1, 0)} = {1}
    /\ Cardinality(files[1]) = 3

\* ------------------------------------------------------------- processes

\* C22: at most one of the worker processes the plugin started is alive.
C22_OneWorkerAlive ==
    Cardinality({r \in Runs : is_alive(r)}) <= 1

\* C22: a first worker has exited after a recording.stopped that timed out
\* in join and a second one that joined it, and a second worker is in its loop
C22_Witness ==
    /\ proc[1] = "exited"
    /\ command_pipe[1] = 2
    /\ worker = 2
    /\ spawned = 2
    /\ proc[2] = "loop"

====
